---- MODULE Spec2Model ----
(***************************************************************************)
(* State-machine model of the mug designer in src/index.js (class          *)
(* MugDesigner): the fabric canvas with its zones and guides, the design   *)
(* objects, the undo history, the pending image loads and the debounced    *)
(* texture bake.                                                           *)
(*                                                                         *)
(* Lengths are integers in tenths of a CSS pixel (Px(n) is n pixels), so   *)
(* that the 0.4 px stroke of the safe rectangle is exact.  A scale factor  *)
(* is an exact fraction [n |-> .., d |-> ..] in lowest terms.              *)
(*                                                                         *)
(* The canvas library (fabric 5.x, loaded as a global by the page) is      *)
(* modelled by what its calls do to the state the program reads:           *)
(*   - add / insertAt fire "object:added", remove and clear fire           *)
(*     "object:removed", once per object, synchronously;                   *)
(*   - toJSON leaves out every object flagged excludeFromExport, writes    *)
(*     only the library's own properties and rounds numbers to two         *)
(*     fraction digits;                                                    *)
(*   - loadFromJSON clears the canvas and inserts the revived objects;     *)
(*   - getBoundingRect(true) is the axis-aligned box of the object with    *)
(*     its stroke, scale and rotation applied.                             *)
(***************************************************************************)
EXTENDS Integers, Sequences, FiniteSets, TLC

VARIABLES
    canvasSize,     \* this.canvas.width / this.canvas.height
    objects,        \* this.canvas._objects, bottom of the z-order first
    overlay,        \* the objects this.safeRect, this.bleedRect, this.vGuide, this.hGuide
    history,        \* this.history
    patternMovable, \* this.patternMovable
    pending,        \* fabric.Image.fromURL requests whose callback has not run yet
    timers,         \* pending setTimeout timers of debouncedUpdate: [id, delay left in ms]
    timeout,        \* the `timeout` variable closed over by debounce(), 0 when undefined
    outerMug,       \* TRUE once this.meshes["Object_4"] exists
    texLoads,       \* TextureLoader.load requests whose callback has not run yet:
                    \* the textures [id, pic] that load() created
    map,            \* outerMug.material.map: << >> or <<texture>>
    disposed,       \* the textures dispose() was called on
    dragging,       \* index of the object under an unfinished transform, 0 if none
    warned,         \* whether the last checkBounds call raised the console warning
    trace           \* history variables used to state the properties

vars == <<canvasSize, objects, overlay, history, patternMovable, pending,
          timers, timeout, outerMug, texLoads, map, disposed,
          dragging, warned, trace>>

---------------------------------------------------------------------------
(* Numbers of the program *)

Px(n) == n * 10

DEFAULT_CANVAS_WIDTH == 614
DEFAULT_CANVAS_HEIGHT == 230
BLEED_MARGIN == 10
DEBOUNCE_TIME == 300
HISTORY_LIMIT == 50
SnapPx == 10
MarginLeft == 60
MarginRight == 60
MarginTop == 3
MarginBottom == 5
UploadMarginTop == 10
UploadMarginBottom == 10
CloneOffset == 30
\* strokeWidth of the safe rectangle is 0.4 px: four tenths of a pixel
SafeStrokeTenths == 4
\* the bleed rectangle sets no strokeWidth and keeps the library's default, 1 px
DefaultStrokeWidth == 1
\* fabric.Object.NUM_FRACTION_DIGITS: toJSON rounds to 1/100
FractionUnits == 100

---------------------------------------------------------------------------
(* Arithmetic helpers *)

Abs(x) == IF x < 0 THEN -x ELSE x

Min2(a, b) == IF a < b THEN a ELSE b

RECURSIVE GCD(_, _)
GCD(a, b) == IF b = 0 THEN a ELSE GCD(b, a % b)

\* the fraction n/d in lowest terms (d > 0)
Frac(n, d) == LET g == GCD(Abs(n), d) IN
              IF g = 0 THEN [n |-> 0, d |-> 1] ELSE [n |-> n \div g, d |-> d \div g]

One == [n |-> 1, d |-> 1]

\* length * scale; the inputs of the model keep this division exact
Scaled(len, s) == (len * s.n) \div s.d

\* fabric.util.toFixed(s, 2) for a scale s >= 0: rounded to the nearest 1/100
ToFixed2(s) == Frac((2 * FractionUnits * s.n + s.d) \div (2 * s.d), FractionUnits)

\* fraction comparison a < b, and the smaller / larger of two fractions
FracLess(a, b) == a.n * b.d < b.n * a.d

FracMin(a, b) == IF FracLess(b, a) THEN b ELSE a

FracMax(a, b) == IF FracLess(a, b) THEN b ELSE a

---------------------------------------------------------------------------
(* Objects of the canvas *)

\* The zones and guides are referred to from the canvas by name; their state
\* is the value of overlay[name].
OverlayNames == {"safeRect", "bleedRect", "vGuide", "hGuide"}

NoClip == << >>

\* A canvas entry.  Entries of type "overlay" stand for the object overlay[ref];
\* the other fields of such an entry are not used.  lockTransform stands for
\* lockScalingX, lockScalingY and lockRotation, which the code always sets together.
Entry(type, ref, src, left, top, width, height, strokeWidth) ==
    [type |-> type, ref |-> ref, src |-> src, left |-> left, top |-> top,
     width |-> width, height |-> height, scaleX |-> One, scaleY |-> One,
     angle |-> 0, strokeWidth |-> strokeWidth, clipPath |-> NoClip,
     patternImage |-> FALSE, selectable |-> TRUE, evented |-> TRUE,
     hasControls |-> TRUE, lockTransform |-> FALSE, excludeFromExport |-> FALSE,
     excludeFromLayers |-> FALSE]

OverlayEntry(ref) ==
    [Entry("overlay", ref, "", 0, 0, 0, 0, 0) EXCEPT
        !.selectable = FALSE, !.evented = FALSE,
        !.excludeFromExport = TRUE, !.excludeFromLayers = TRUE]

IsOverlay(o) == o.type = "overlay"

\* the rectangle `new fabric.Rect({left, top, width, height})` of a zone or clip
Rect(left, top, width, height) ==
    [left |-> left, top |-> top, width |-> width, height |-> height]

NewSafeRect(size) ==
    [left |-> Px(MarginLeft), top |-> Px(MarginTop),
     width |-> size.width - (Px(MarginLeft) + Px(MarginRight)),
     height |-> size.height - (Px(MarginTop) + Px(MarginBottom)),
     strokeWidth |-> SafeStrokeTenths, visible |-> TRUE]

NewBleedRect(size) ==
    [left |-> -Px(BLEED_MARGIN), top |-> -Px(BLEED_MARGIN),
     width |-> size.width + Px(BLEED_MARGIN) * 2,
     height |-> size.height + Px(BLEED_MARGIN) * 2,
     strokeWidth |-> Px(DefaultStrokeWidth), visible |-> TRUE]

NewVGuide(size) ==
    [left |-> size.width \div 2, top |-> 0, width |-> 0, height |-> size.height,
     strokeWidth |-> Px(DefaultStrokeWidth), visible |-> FALSE]

NewHGuide(size) ==
    [left |-> 0, top |-> size.height \div 2, width |-> size.width, height |-> 0,
     strokeWidth |-> Px(DefaultStrokeWidth), visible |-> FALSE]

DefaultSize == [width |-> Px(DEFAULT_CANVAS_WIDTH), height |-> Px(DEFAULT_CANVAS_HEIGHT)]

---------------------------------------------------------------------------
(* Geometry *)

\* getBoundingRect(true) of a zone rectangle (origin left/top, no scale, no
\* rotation): the rectangle grown by its stroke
RectBounds(r) ==
    Rect(r.left, r.top, r.width + r.strokeWidth, r.height + r.strokeWidth)

\* getBoundingRect(true) of a design object (origin center): the horizontal
\* and the vertical extent of the box, each as numerators over its own
\* denominator `den`, so that no rounding takes place.  A quarter turn swaps
\* the two sides.
BoxH(o) ==
    LET len == IF o.angle = 90 THEN o.height + o.strokeWidth ELSE o.width + o.strokeWidth
        s   == IF o.angle = 90 THEN o.scaleY ELSE o.scaleX
    IN [den |-> 2 * s.d, lo |-> 2 * s.d * o.left - len * s.n,
        hi |-> 2 * s.d * o.left + len * s.n]

BoxV(o) ==
    LET len == IF o.angle = 90 THEN o.width + o.strokeWidth ELSE o.height + o.strokeWidth
        s   == IF o.angle = 90 THEN o.scaleX ELSE o.scaleY
    IN [den |-> 2 * s.d, lo |-> 2 * s.d * o.top - len * s.n,
        hi |-> 2 * s.d * o.top + len * s.n]

\* the condition of the console warning, lines 602-607
EscapesRect(o, r) ==
    LET h == BoxH(o)
        v == BoxV(o)
    IN \/ h.lo < r.left * h.den
       \/ h.hi > (r.left + r.width) * h.den
       \/ v.lo < r.top * v.den
       \/ v.hi > (r.top + r.height) * v.den

\* the box of o lies inside the rectangle r
InsideRect(o, r) == ~EscapesRect(o, r)

\* checkBounds whose half sizes are taken before the rescale
checkBoundsStaleSize(obj, safeRect, bleedRect) ==
    LET safe == RectBounds(safeRect)
        fitX == obj.width * obj.scaleX.n > safe.width * obj.scaleX.d
        fitY == obj.height * obj.scaleY.n > safe.height * obj.scaleY.d
        sx == IF fitX THEN Frac(safe.width, obj.width) ELSE obj.scaleX
        sy == IF fitY THEN Frac(safe.height, obj.height) ELSE obj.scaleY
        objHalfW == Scaled(obj.width, obj.scaleX) \div 2
        objHalfH == Scaled(obj.height, obj.scaleY) \div 2
        minX == safe.left + objHalfW
        maxX == safe.left + safe.width - objHalfW
        minY == safe.top + objHalfH
        maxY == safe.top + safe.height - objHalfH
        l1 == IF obj.left < minX THEN minX ELSE obj.left
        l2 == IF l1 > maxX THEN maxX ELSE l1
        t1 == IF obj.top < minY THEN minY ELSE obj.top
        t2 == IF t1 > maxY THEN maxY ELSE t1
    IN [warn |-> EscapesRect(obj, RectBounds(bleedRect)),
        obj |-> IF obj.type = "i-text"
                THEN [obj EXCEPT !.scaleX = sx, !.scaleY = sy, !.left = l2, !.top = t2]
                ELSE obj]

\* checkBounds(obj), lines 595-640: the warning, and for a text the rescale
\* to the safe size followed by the clamp of its center
checkBounds(obj, safeRect, bleedRect) ==
    LET safe == RectBounds(safeRect)
        bleed == RectBounds(bleedRect)
        maxWidth == safe.width
        maxHeight == safe.height
        fitX == obj.width * obj.scaleX.n > maxWidth * obj.scaleX.d
        fitY == obj.height * obj.scaleY.n > maxHeight * obj.scaleY.d
        sx == IF fitX THEN Frac(maxWidth, obj.width) ELSE obj.scaleX
        sy == IF fitY THEN Frac(maxHeight, obj.height) ELSE obj.scaleY
        objWidth == IF fitX THEN maxWidth ELSE Scaled(obj.width, obj.scaleX)
        objHeight == IF fitY THEN maxHeight ELSE Scaled(obj.height, obj.scaleY)
        objHalfW == objWidth \div 2
        objHalfH == objHeight \div 2
        minX == safe.left + objHalfW
        maxX == safe.left + safe.width - objHalfW
        minY == safe.top + objHalfH
        maxY == safe.top + safe.height - objHalfH
        l1 == IF obj.left < minX THEN minX ELSE obj.left
        l2 == IF l1 > maxX THEN maxX ELSE l1
        t1 == IF obj.top < minY THEN minY ELSE obj.top
        t2 == IF t1 > maxY THEN maxY ELSE t1
    IN [warn |-> EscapesRect(obj, bleed),
        obj |-> IF obj.type = "i-text"
                THEN [obj EXCEPT !.scaleX = sx, !.scaleY = sy, !.left = l2, !.top = t2]
                ELSE obj]

\* snapToCenter(obj, snapPx), lines 572-593.  `center` is read once, before
\* either axis is tested; setPositionByOrigin(p, "center", "center") moves the
\* center of obj to p.
snapToCenter(obj, size, snapPx) ==
    LET center == [x |-> obj.left, y |-> obj.top]
        snapX == Abs(2 * center.x - size.width) < 2 * snapPx
        snapY == Abs(2 * center.y - size.height) < 2 * snapPx
        o1 == IF snapX
              THEN [obj EXCEPT !.left = size.width \div 2, !.top = center.y]
              ELSE obj
        o2 == IF snapY
              THEN [o1 EXCEPT !.left = center.x, !.top = size.height \div 2]
              ELSE o1
    IN [obj |-> o2, vGuide |-> snapX, hGuide |-> snapY]

---------------------------------------------------------------------------
(* Serialization: canvas.toJSON() and canvas.loadFromJSON() *)

\* object.toObject(): the properties the library writes.  patternImage,
\* selectable, evented, hasControls and the lock flags are not among them;
\* scaleX and scaleY are rounded by toFixed(.., 2).  Positions and sizes are
\* multiples of 1/10 px, which the rounding keeps.
toObject(o) ==
    [type |-> o.type, src |-> o.src, left |-> o.left, top |-> o.top,
     width |-> o.width, height |-> o.height,
     scaleX |-> ToFixed2(o.scaleX), scaleY |-> ToFixed2(o.scaleY),
     angle |-> o.angle, strokeWidth |-> o.strokeWidth, clipPath |-> o.clipPath]

\* klass.fromObject(): the written properties, every other one at its default
fromObject(s) ==
    [Entry(s.type, "", s.src, s.left, s.top, s.width, s.height, s.strokeWidth) EXCEPT
        !.scaleX = s.scaleX, !.scaleY = s.scaleY, !.angle = s.angle,
        !.clipPath = s.clipPath]

\* Array.prototype.map: the sequence of the F(seq[i])
MapSeq(F(_), seq) == [i \in 1..Len(seq) |-> F(seq[i])]

Exported(o) == ~o.excludeFromExport

\* canvas.toJSON(): the objects not flagged excludeFromExport, in z-order
toJSON(objs) == MapSeq(toObject, SelectSeq(objs, Exported))

\* saveHistory() without the eviction of line 464
saveHistoryUnbounded(h, objs) == Append(h, toJSON(objs))

\* saveHistory(), lines 462-465
saveHistory(h, objs) ==
    LET pushed == Append(h, toJSON(objs))
    IN IF Len(pushed) > HISTORY_LIMIT THEN Tail(pushed) ELSE pushed

---------------------------------------------------------------------------
(* Canvas calls with the event handlers they run.  c is [objects, history];  *)
(* every one of the three handlers also calls debouncedUpdate, which the     *)
(* actions account for.                                                      *)

\* the "object:added" handler, lines 677-681
OnObjectAdded(c) == [c EXCEPT !.history = saveHistory(c.history, c.objects)]

\* the "object:removed" handler, lines 683-689
OnObjectRemoved(c) == [c EXCEPT !.history = saveHistory(c.history, c.objects)]

RemoveAt(seq, i) == SubSeq(seq, 1, i - 1) \o SubSeq(seq, i + 1, Len(seq))

\* canvas.add(o)
CanvasAdd(c, o) == OnObjectAdded([c EXCEPT !.objects = Append(@, o)])

\* canvas.remove(canvas._objects[i])
CanvasRemove(c, i) == OnObjectRemoved([c EXCEPT !.objects = RemoveAt(@, i)])

\* saveHistory() run once for each of the canvases in snaps, in order: the
\* snapshots are appended and the oldest ones evicted down to the limit
saveEach(h, snaps) ==
    LET all == h \o snaps
    IN IF Len(all) > HISTORY_LIMIT
       THEN SubSeq(all, Len(all) - HISTORY_LIMIT + 1, Len(all))
       ELSE all

\* canvas.add(o1, o2, ..) and the insertAt loop of loadFromJSON: the objects
\* are added in order, and each "object:added" handler commits the canvas as
\* it is with the objects added so far
CanvasAddAll(c, os) ==
    [objects |-> c.objects \o os,
     history |-> saveEach(c.history,
                          [k \in 1..Len(os) |-> toJSON(c.objects \o SubSeq(os, 1, k))])]

\* canvas.clear(): remove.apply(canvas, canvas.getObjects()), bottom object
\* first; each "object:removed" handler commits the canvas as it is without
\* the objects removed so far
CanvasClear(c) ==
    [objects |-> << >>,
     history |-> saveEach(c.history,
                          [k \in 1..Len(c.objects) |->
                              toJSON(SubSeq(c.objects, k + 1, Len(c.objects)))])]

\* canvas.sendToBack(canvas._objects[i]); fires no object event
SendToBack(objs, i) == <<objs[i]>> \o RemoveAt(objs, i)

\* canvas.loadFromJSON(snapshot, callback): clear, then insert the revived objects
loadFromJSON(c, snapshot) == CanvasAddAll(CanvasClear(c), MapSeq(fromObject, snapshot))

---------------------------------------------------------------------------
(* debounce(), lines 32-38 *)

TimerIds(ts) == {t.id : t \in ts}

\* the handle setTimeout returns: one no pending timer has
NewTimerId(ts) == CHOOSE i \in 1..(Cardinality(ts) + 1) : i \notin TimerIds(ts)

\* the debounced function without clearTimeout
debouncedNoClear(ts, handle) ==
    LET id == NewTimerId(ts)
    IN [timers |-> ts \cup {[id |-> id, delay |-> DEBOUNCE_TIME]}, timeout |-> id]

\* the function debounce() returns: clearTimeout(timeout), then a new timer
debounced(ts, handle) ==
    LET cleared == {t \in ts : t.id # handle}
        id == NewTimerId(cleared)
    IN [timers |-> cleared \cup {[id |-> id, delay |-> DEBOUNCE_TIME]}, timeout |-> id]

---------------------------------------------------------------------------
(* The designer's state and helpers over it *)

Canvas == [objects |-> objects, history |-> history]

IsDesign(o) == ~IsOverlay(o)

\* the design objects of a canvas, in z-order
DesignObjects(objs) == SelectSeq(objs, IsDesign)

\* updateLayersPanel's list, lines 473-480: no zone, no guide, nothing flagged
\* excludeFromLayers
Listed(o) == ~IsOverlay(o) /\ ~o.excludeFromLayers

listDesignObjects(objs) == SelectSeq(objs, Listed)

Last(seq) == seq[Len(seq)]

\* the object a control or a drag can act on: it takes pointer events
Grabbable(o) == IsDesign(o) /\ o.selectable /\ o.evented

\* this.debouncedUpdate(): (re)start the bake timer
Schedule ==
    LET r == debounced(timers, timeout)
    IN /\ timers' = r.timers
       /\ timeout' = r.timeout

\* what the canvas needs to draw an object: toDataURL's view of it
Rendered(o) ==
    [type |-> o.type, src |-> o.src, left |-> o.left, top |-> o.top,
     width |-> o.width, height |-> o.height, scaleX |-> o.scaleX,
     scaleY |-> o.scaleY, angle |-> o.angle, strokeWidth |-> o.strokeWidth,
     clipPath |-> o.clipPath]

\* canvas.toDataURL(): the picture of the visible objects
toDataURL(objs, hidden) ==
    LET Shown(o) == IF IsOverlay(o) THEN o.ref \notin hidden /\ overlay[o.ref].visible
                    ELSE TRUE
    IN MapSeq(Rendered, SelectSeq(objs, Shown))

\* the names of the zones and guides that are on the canvas
OnCanvas(objs) == {objs[i].ref : i \in {j \in 1..Len(objs) : IsOverlay(objs[j])}}

\* history variables: what the last command was and what it started from;
\* muts are the snapshots of the mutations committed since the last undo or
\* reset, commits counts the commands that committed since the last reset
Note(cmd) ==
    [trace EXCEPT !.cmd = cmd, !.undid = trace.cmd,
                  !.before = DesignObjects(objects),
                  !.lenBefore = Len(history),
                  !.arg = << >>, !.reps = 0]

\* the same, for an event of a transform: the command began with its first event
NoteDrag(cmd) ==
    IF dragging = 0 THEN Note(cmd)
    ELSE [Note(cmd) EXCEPT !.before = trace.before, !.lenBefore = trace.lenBefore,
                           !.undid = trace.undid]

\* the same, for a command that called debouncedUpdate: gap is the time since
\* the call before
NoteScheduled(cmd) ==
    [Note(cmd) EXCEPT !.sinceCall = 0, !.fired = 0, !.gap = trace.sinceCall]

\* the same, for a command that committed a mutation: h is the history it left
NoteCommitted(cmd, h) ==
    [NoteScheduled(cmd) EXCEPT !.muts = Append(trace.muts, h[Len(h)]),
                               !.commits = @ + 1]

\* the same, for undo and reset, which keep what the command before them
\* started from
NoteRewound(cmd) ==
    [NoteScheduled(cmd) EXCEPT !.muts = << >>, !.before = trace.before]

---------------------------------------------------------------------------
(* Commands of the text panel and of the object controls *)

\* the click on addTextConfirm, lines 692-717.  canvas.add runs the
\* "object:added" handler before checkBounds has clamped the text.
AddText(content, size, strokeWidth) ==
    LET text == Entry("i-text", "", content, canvasSize.width \div 2,
                      canvasSize.height \div 2, size.w, size.h, strokeWidth)
        c1 == CanvasAdd(Canvas, text)
        cb == checkBounds(text, overlay.safeRect, overlay.bleedRect)
    IN /\ dragging = 0
       /\ objects' = [c1.objects EXCEPT ![Len(c1.objects)] = cb.obj]
       /\ history' = c1.history
       /\ warned' = cb.warn
       /\ Schedule
       /\ trace' = NoteCommitted("add-text", history')
       /\ UNCHANGED <<canvasSize, overlay, patternMovable, pending, outerMug,
                      texLoads, map, disposed, dragging>>

\* the deleteControl mouseUpHandler, lines 181-191: the remove event commits,
\* and the handler commits again
Delete(i) ==
    LET c1 == CanvasRemove(Canvas, i)
    IN /\ dragging = 0
       /\ i \in 1..Len(objects)
       /\ Grabbable(objects[i]) /\ objects[i].hasControls
       /\ objects' = c1.objects
       /\ history' = saveHistory(c1.history, c1.objects)
       /\ Schedule
       /\ trace' = NoteCommitted("delete", history')
       /\ UNCHANGED <<canvasSize, overlay, patternMovable, pending, outerMug,
                      texLoads, map, disposed, dragging, warned>>

\* the cloneControl mouseUpHandler, lines 217-236.  target.clone goes through
\* toObject and fromObject.
Clone(i) ==
    LET target == objects[i]
        clone == [fromObject(toObject(target)) EXCEPT
                     !.left = target.left + Px(CloneOffset),
                     !.top = target.top + Px(CloneOffset),
                     !.evented = TRUE]
        c1 == CanvasAdd(Canvas, clone)
    IN /\ dragging = 0
       /\ i \in 1..Len(objects)
       /\ Grabbable(objects[i]) /\ objects[i].hasControls
       /\ objects' = c1.objects
       /\ history' = saveHistory(c1.history, c1.objects)
       /\ Schedule
       /\ trace' = NoteCommitted("clone", history')
       /\ UNCHANGED <<canvasSize, overlay, patternMovable, pending, outerMug,
                      texLoads, map, disposed, dragging, warned>>

---------------------------------------------------------------------------
(* Transforms of an object with the pointer *)

\* one "object:moving" event, lines 657-660: the drag has put the center of
\* objects[i] at p; snapToCenter, then checkBounds
Moving(i, p) ==
    LET moved == [objects[i] EXCEPT !.left = p.x, !.top = p.y]
        snap == snapToCenter(moved, canvasSize, Px(SnapPx))
        cb == checkBounds(snap.obj, overlay.safeRect, overlay.bleedRect)
    IN /\ dragging \in {0, i}
       /\ i \in 1..Len(objects)
       /\ Grabbable(objects[i])
       /\ objects' = [objects EXCEPT ![i] = cb.obj]
       /\ overlay' = [overlay EXCEPT !.vGuide.visible = snap.vGuide,
                                     !.hGuide.visible = snap.hGuide]
       /\ warned' = cb.warn
       /\ dragging' = i
       /\ trace' = NoteDrag("moving")
       /\ UNCHANGED <<canvasSize, history, patternMovable, pending, timers,
                      timeout, outerMug, texLoads, map, disposed>>

\* one "object:scaling" event, lines 662-664: a corner control has set the
\* scale of objects[i] to s on both axes; checkBounds
Scaling(i, s) ==
    LET scaled == [objects[i] EXCEPT !.scaleX = s, !.scaleY = s]
        cb == checkBounds(scaled, overlay.safeRect, overlay.bleedRect)
    IN /\ dragging \in {0, i}
       /\ i \in 1..Len(objects)
       /\ Grabbable(objects[i]) /\ objects[i].hasControls
       /\ ~objects[i].lockTransform
       /\ objects' = [objects EXCEPT ![i] = cb.obj]
       /\ warned' = cb.warn
       /\ dragging' = i
       /\ trace' = NoteDrag("scaling")
       /\ UNCHANGED <<canvasSize, overlay, history, patternMovable, pending,
                      timers, timeout, outerMug, texLoads, map, disposed>>

\* the rotation control turns objects[i] by a quarter turn; the program has
\* no handler for "object:rotating"
Rotating(i) ==
    /\ dragging \in {0, i}
    /\ i \in 1..Len(objects)
    /\ Grabbable(objects[i]) /\ objects[i].hasControls
    /\ ~objects[i].lockTransform
    /\ objects' = [objects EXCEPT ![i].angle = 90 - @]
    /\ dragging' = i
    /\ trace' = NoteDrag("rotating")
    /\ UNCHANGED <<canvasSize, overlay, history, patternMovable, pending,
                   timers, timeout, outerMug, texLoads, map, disposed, warned>>

\* the "object:modified" handler at the end of a transform, lines 666-675
Modified ==
    LET i == dragging
        cb == checkBounds(objects[i], overlay.safeRect, overlay.bleedRect)
        objs == [objects EXCEPT ![i] = cb.obj]
    IN /\ dragging # 0
       /\ overlay' = [overlay EXCEPT !.vGuide.visible = FALSE,
                                     !.hGuide.visible = FALSE]
       /\ objects' = objs
       /\ warned' = cb.warn
       /\ history' = saveHistory(history, objs)
       /\ Schedule
       /\ dragging' = 0
       /\ trace' = [NoteCommitted("modified", history') EXCEPT
                        !.before = trace.before, !.lenBefore = trace.lenBefore]
       /\ UNCHANGED <<canvasSize, patternMovable, pending, outerMug, texLoads,
                      map, disposed>>

---------------------------------------------------------------------------
(* Images: uploads and patterns.  fabric.Image.fromURL calls back when the   *)
(* image has loaded; a callback is let run between transforms only.          *)

\* handleImageUpload(file) up to the fromURL call, lines 329-333
UploadImage(img) ==
    /\ dragging = 0
    /\ pending' = Append(pending, [kind |-> "upload", img |-> img])
    /\ trace' = [trace EXCEPT !.cmd = "upload"]
    /\ UNCHANGED <<canvasSize, objects, overlay, history, patternMovable, timers,
                   timeout, outerMug, texLoads, map, disposed, dragging, warned>>

\* a pattern image is loading
PatternPending == \E k \in 1..Len(pending) : pending[k].kind = "pattern"

\* the pattern-item click handler and addPatternImage up to the fromURL call,
\* lines 743-753 and 973-975
SelectPattern(img) ==
    /\ dragging = 0
    /\ pending' = Append(pending, [kind |-> "pattern", img |-> img])
    /\ trace' = [trace EXCEPT !.cmd = "pattern", !.selected = img.src,
                              !.racing = PatternPending]
    /\ UNCHANGED <<canvasSize, objects, overlay, history, patternMovable, timers,
                   timeout, outerMug, texLoads, map, disposed, dragging, warned>>

\* the scale of an upload, line 335: min(0.3, (W - 40) / w, (H - 40) / h)
UploadScale(size, img) ==
    FracMin(Frac(3, 10),
            FracMin(Frac(size.width - Px(40), img.w), Frac(size.height - Px(40), img.h)))

\* the callback of handleImageUpload, lines 334-378: the add event commits,
\* and the callback commits again
ImageLoaded(k) ==
    LET img == pending[k].img
        scale == UploadScale(canvasSize, img)
        safeW == canvasSize.width - (Px(MarginLeft) + Px(MarginRight))
        safeH == canvasSize.height - (Px(UploadMarginTop) + Px(UploadMarginBottom))
        image == [Entry("image", "", img.src, canvasSize.width \div 2,
                        canvasSize.height \div 2, img.w, img.h, 0) EXCEPT
                     !.scaleX = scale, !.scaleY = scale,
                     !.clipPath = <<Rect(Px(MarginLeft), Px(UploadMarginTop), safeW, safeH)>>]
        c1 == CanvasAdd(Canvas, image)
        cb == checkBounds(image, overlay.safeRect, overlay.bleedRect)
    IN /\ dragging = 0
       /\ k \in 1..Len(pending)
       /\ pending[k].kind = "upload"
       /\ pending' = RemoveAt(pending, k)
       /\ objects' = [c1.objects EXCEPT ![Len(c1.objects)] = cb.obj]
       /\ warned' = cb.warn
       /\ history' = saveHistory(c1.history, c1.objects)
       /\ Schedule
       /\ trace' = NoteCommitted("add-image", history')
       /\ UNCHANGED <<canvasSize, overlay, patternMovable, outerMug, texLoads,
                      map, disposed, dragging>>

IsFlaggedPattern(o) == o.patternImage

\* index of the lowest object flagged patternImage, 0 if there is none
FirstPattern(objs) ==
    LET idx == {i \in 1..Len(objs) : IsFlaggedPattern(objs[i])}
    IN IF idx = {} THEN 0 ELSE CHOOSE i \in idx : \A j \in idx : i <= j

\* addPatternImage without the removal of the existing patterns
RemovePatternsSkipped(c) == c

RECURSIVE RemovePatterns(_)
\* "Remove existing patterns", lines 1003-1006: canvas.remove for every
\* object flagged patternImage
RemovePatterns(c) ==
    LET i == FirstPattern(c.objects)
    IN IF i = 0 THEN c ELSE RemovePatterns(CanvasRemove(c, i))

\* the cover-fit scale, line 985: max(safeW / w, safeH / h)
PatternScale(size, img) ==
    FracMax(Frac(size.width - (Px(MarginLeft) + Px(MarginRight)), img.w),
            Frac(size.height - (Px(MarginTop) + Px(MarginBottom)), img.h))

\* the callback of addPatternImage, lines 976-1024
PatternLoaded(k) ==
    LET img == pending[k].img
        safeW == canvasSize.width - (Px(MarginLeft) + Px(MarginRight))
        safeH == canvasSize.height - (Px(MarginTop) + Px(MarginBottom))
        scale == PatternScale(canvasSize, img)
        fImg == [Entry("image", "", img.src, canvasSize.width \div 2,
                       canvasSize.height \div 2, img.w, img.h, 0) EXCEPT
                    !.scaleX = scale, !.scaleY = scale,
                    !.selectable = FALSE, !.evented = FALSE, !.hasControls = FALSE,
                    !.lockTransform = TRUE, !.patternImage = TRUE,
                    !.clipPath = <<Rect(Px(MarginLeft), Px(MarginTop), safeW, safeH)>>]
        c1 == RemovePatterns(Canvas)
        c2 == CanvasAdd(c1, fImg)
    IN /\ dragging = 0
       /\ k \in 1..Len(pending)
       /\ pending[k].kind = "pattern"
       /\ pending' = RemoveAt(pending, k)
       /\ objects' = SendToBack(c2.objects, Len(c2.objects))
       /\ history' = c2.history
       /\ Schedule
       /\ trace' = [NoteCommitted("select-pattern", history') EXCEPT !.added = img.src]
       /\ UNCHANGED <<canvasSize, overlay, patternMovable, outerMug, texLoads,
                      map, disposed, dragging, warned>>

\* the click on togglePatternBtn, lines 805-833
TogglePattern ==
    LET movable == ~patternMovable
        Set(o) == IF o.patternImage
                  THEN [o EXCEPT !.selectable = movable, !.evented = movable,
                                 !.hasControls = movable, !.lockTransform = ~movable]
                  ELSE o
    IN /\ dragging = 0
       /\ patternMovable' = movable
       /\ objects' = MapSeq(Set, objects)
       /\ Schedule
       /\ trace' = NoteScheduled("toggle-pattern")
       /\ UNCHANGED <<canvasSize, overlay, history, pending, outerMug, texLoads,
                      map, disposed, dragging, warned>>

\* the click on the lock button of a layer, lines 503-512: the button of
\* objects[i], which the layer list shows
ToggleLock(i) ==
    /\ dragging = 0
    /\ i \in 1..Len(objects)
    /\ Listed(objects[i])
    /\ objects' = [objects EXCEPT ![i].selectable = ~@, ![i].evented = ~@,
                                  ![i].hasControls = ~@]
    /\ Schedule
    /\ trace' = NoteScheduled("lock")
    /\ UNCHANGED <<canvasSize, overlay, history, patternMovable, pending, outerMug,
                   texLoads, map, disposed, dragging, warned>>

---------------------------------------------------------------------------
(* Reset and undo *)

\* resetDesign() without the `this.history = []` of line 967
resetDesignKeepsHistory(c) ==
    LET c1 == CanvasClear(c)
        c2 == CanvasAddAll(c1, <<OverlayEntry("bleedRect"), OverlayEntry("safeRect"),
                                 OverlayEntry("vGuide"), OverlayEntry("hGuide")>>)
        o1 == SendToBack(c2.objects, 1)
        o2 == SendToBack(o1, 2)
    IN [objects |-> o2,
        history |-> c2.history,
        overlay |-> [overlay EXCEPT !.safeRect = NewSafeRect(canvasSize),
                                    !.bleedRect = NewBleedRect(canvasSize)],
        map |-> IF outerMug THEN << >> ELSE map,
        disposed |-> IF outerMug /\ map # << >> THEN disposed \cup {map[1]} ELSE disposed]

\* resetDesign(), lines 916-971, from the canvas c: what it leaves behind.
\* The handlers of the clear and of the four adds commit, and line 967 then
\* empties the history.
resetDesign(c) ==
    LET c1 == CanvasClear(c)
        c2 == CanvasAddAll(c1, <<OverlayEntry("bleedRect"), OverlayEntry("safeRect"),
                                 OverlayEntry("vGuide"), OverlayEntry("hGuide")>>)
        o1 == SendToBack(c2.objects, 1)
        o2 == SendToBack(o1, 2)
    IN [objects |-> o2,
        history |-> << >>,
        overlay |-> [overlay EXCEPT !.safeRect = NewSafeRect(canvasSize),
                                    !.bleedRect = NewBleedRect(canvasSize)],
        map |-> IF outerMug THEN << >> ELSE map,
        disposed |-> IF outerMug /\ map # << >> THEN disposed \cup {map[1]} ELSE disposed]

\* the click on resetBtn, confirmed, lines 783-787
Reset ==
    LET r == resetDesign(Canvas)
    IN /\ dragging = 0
       /\ objects' = r.objects
       /\ history' = r.history
       /\ overlay' = r.overlay
       /\ map' = r.map
       /\ disposed' = r.disposed
       /\ Schedule
       /\ trace' = [NoteRewound("reset") EXCEPT !.commits = 0]
       /\ UNCHANGED <<canvasSize, patternMovable, pending, outerMug, texLoads,
                      dragging, warned>>

\* history.pop()
Pop(h) == SubSeq(h, 1, Len(h) - 1)

\* an undo handler without the test of line 790, whose fallback clears the
\* canvas instead of resetting the design
UndoClearsWhenEmpty ==
    LET popped == IF history = << >> THEN << >> ELSE Pop(history)
        restored == loadFromJSON([objects |-> objects, history |-> popped], Last(popped))
        cleared == CanvasClear([objects |-> objects, history |-> popped])
    IN /\ dragging = 0
       /\ IF popped # << >>
          THEN /\ objects' = restored.objects
               /\ history' = restored.history
          ELSE /\ objects' = cleared.objects
               /\ history' = cleared.history
       /\ Schedule
       /\ trace' = NoteRewound("undo")
       /\ UNCHANGED <<canvasSize, overlay, map, disposed, patternMovable, pending,
                      outerMug, texLoads, dragging, warned>>

\* the click on undoBtn, lines 789-803.  loadFromJSON runs the handlers of
\* "object:removed" and "object:added", which commit to the popped history.
\* The revival of the objects of the snapshot is taken as immediate.
Undo ==
    LET popped == Pop(history)
        restored == loadFromJSON([objects |-> objects, history |-> popped], Last(popped))
        r == resetDesign([objects |-> objects, history |-> popped])
    IN /\ dragging = 0
       /\ IF Len(history) > 0
          THEN IF popped # << >>
               THEN /\ objects' = restored.objects
                    /\ history' = restored.history
                    /\ Schedule
                    /\ trace' = NoteRewound("undo")
                    /\ UNCHANGED <<overlay, map, disposed>>
               ELSE /\ objects' = r.objects
                    /\ history' = r.history
                    /\ overlay' = r.overlay
                    /\ map' = r.map
                    /\ disposed' = r.disposed
                    /\ Schedule
                    /\ trace' = NoteRewound("undo")
          ELSE /\ trace' = [Note("undo") EXCEPT !.muts = << >>, !.before = trace.before]
               /\ UNCHANGED <<objects, history, overlay, map, disposed, timers, timeout>>
       /\ UNCHANGED <<canvasSize, patternMovable, pending, outerMug, texLoads,
                      dragging, warned>>

---------------------------------------------------------------------------
(* The viewport *)

\* the `containerWidth - 32` and `containerHeight - 32` of lines 525-528
ContainerPadding == 32

\* the canvas size updateCanvasSize computes, lines 525-531; ASPECT_RATIO is
\* DEFAULT_CANVAS_WIDTH / DEFAULT_CANVAS_HEIGHT, and the container sizes of
\* the model keep the divisions exact
FittedSize(cw, ch) ==
    LET w1 == Min2(cw - Px(ContainerPadding), Px(DEFAULT_CANVAS_WIDTH))
        h1 == (w1 * DEFAULT_CANVAS_HEIGHT) \div DEFAULT_CANVAS_WIDTH
        h2 == ch - Px(ContainerPadding)
    IN IF h1 > h2
       THEN [width |-> (h2 * DEFAULT_CANVAS_WIDTH) \div DEFAULT_CANVAS_HEIGHT, height |-> h2]
       ELSE [width |-> w1, height |-> h1]

\* obj.set({left, top, width, height}) on a zone or guide: the other
\* properties stay
SetGeometry(o, g) ==
    [o EXCEPT !.left = g.left, !.top = g.top, !.width = g.width, !.height = g.height]

\* updateCanvasSize that resizes the canvas and leaves the zones as they are
ResizeKeepsZones(cw, ch) ==
    /\ dragging = 0
    /\ canvasSize' = FittedSize(cw, ch)
    /\ Schedule
    /\ trace' = NoteScheduled("resize")
    /\ UNCHANGED <<objects, overlay, history, patternMovable, pending, outerMug,
                   texLoads, map, disposed, dragging, warned>>

\* updateCanvasSize(containerWidth, containerHeight), lines 524-570, as the
\* window resize handler and the splitter call it
Resize(cw, ch) ==
    LET size == FittedSize(cw, ch)
    IN /\ dragging = 0
       /\ canvasSize' = size
       /\ overlay' = [overlay EXCEPT
                         !.safeRect = SetGeometry(@, NewSafeRect(size)),
                         !.bleedRect = SetGeometry(@, NewBleedRect(size)),
                         !.vGuide = SetGeometry(@, NewVGuide(size)),
                         !.hGuide = SetGeometry(@, NewHGuide(size))]
       /\ Schedule
       /\ trace' = NoteScheduled("resize")
       /\ UNCHANGED <<objects, history, patternMovable, pending, outerMug,
                      texLoads, map, disposed, dragging, warned>>

---------------------------------------------------------------------------
(* Time, the bake and the 3D model *)

\* d milliseconds pass; no timer is overdue
Tick(d) ==
    /\ timers # {}
    /\ \A t \in timers : t.delay >= d
    /\ timers' = {[t EXCEPT !.delay = @ - d] : t \in timers}
    /\ trace' = [trace EXCEPT !.sinceCall = Min2(@ + d, DEBOUNCE_TIME)]
    /\ UNCHANGED <<canvasSize, objects, overlay, history, patternMovable, pending,
                   timeout, outerMug, texLoads, map, disposed, dragging, warned>>

\* the textures there are, by the number that tells one from another
TextureIds ==
    {x.id : x \in disposed} \cup {map[i].id : i \in 1..Len(map)}
        \cup {texLoads[i].id : i \in 1..Len(texLoads)}

\* new THREE.TextureLoader().load(..) returns a texture that is none of them
NewTextureId == CHOOSE i \in 1..(Cardinality(TextureIds) + 1) : i \notin TextureIds

\* the visibility of the zones and guides
Visibility == [n \in OverlayNames |-> overlay[n].visible]

\* lines 446-450 and 770-774: every object of the canvas flagged
\* excludeFromExport is set visible
ShowExcluded ==
    [n \in OverlayNames |->
        IF n \in OnCanvas(objects) THEN [overlay[n] EXCEPT !.visible = TRUE]
        ELSE overlay[n]]

\* a timer of debouncedUpdate expires and runs updateMugTexture(), lines
\* 428-460: nothing without the outer mesh; else every zone and guide of the
\* canvas is hidden, the canvas is drawn, every one of them is shown, and the
\* picture starts to load as a texture
TimerFires(t) ==
    /\ t \in timers
    /\ t.delay = 0
    /\ timers' = timers \ {t}
    /\ IF outerMug
       THEN /\ texLoads' = Append(texLoads,
                                   [id |-> NewTextureId,
                                    pic |-> toDataURL(objects, OnCanvas(objects))])
            /\ overlay' = ShowExcluded
       ELSE UNCHANGED <<texLoads, overlay>>
    /\ trace' = [trace EXCEPT !.fired = @ + 1, !.firedId = t.id,
                              !.firedAt = trace.sinceCall,
                              !.shown = IF outerMug
                                        THEN [before |-> Visibility,
                                              after |-> [n \in OverlayNames |->
                                                            ShowExcluded[n].visible]]
                                        ELSE @]
    /\ UNCHANGED <<canvasSize, objects, history, patternMovable, pending, timeout,
                   outerMug, map, disposed, dragging, warned>>

\* the callback of TextureLoader.load that binds the texture without the
\* dispose of line 456
TextureLoadedNoDispose(k) ==
    /\ k \in 1..Len(texLoads)
    /\ texLoads' = RemoveAt(texLoads, k)
    /\ map' = <<texLoads[k]>>
    /\ trace' = [trace EXCEPT !.bound = @ \cup {texLoads[k].id}]
    /\ UNCHANGED <<canvasSize, objects, overlay, history, patternMovable, pending,
                   timers, timeout, outerMug, disposed, dragging, warned>>

\* the callback of TextureLoader.load, lines 453-459
TextureLoaded(k) ==
    /\ k \in 1..Len(texLoads)
    /\ texLoads' = RemoveAt(texLoads, k)
    /\ disposed' = IF map # << >> THEN disposed \cup {map[1]} ELSE disposed
    /\ map' = <<texLoads[k]>>
    /\ trace' = [trace EXCEPT !.bound = @ \cup {texLoads[k].id}]
    /\ UNCHANGED <<canvasSize, objects, overlay, history, patternMovable, pending,
                   timers, timeout, outerMug, dragging, warned>>

\* a texture source that fails to load and unbinds the texture of the mesh
TextureFailedUnbinds(k) ==
    /\ k \in 1..Len(texLoads)
    /\ texLoads' = RemoveAt(texLoads, k)
    /\ map' = << >>
    /\ trace' = [trace EXCEPT !.failed = <<map>>]
    /\ UNCHANGED <<canvasSize, objects, overlay, history, patternMovable, pending,
                   timers, timeout, outerMug, disposed, dragging, warned>>

\* the texture source fails to load: load() at line 453 is given no onError
\* callback, so nothing runs
TextureFailed(k) ==
    /\ k \in 1..Len(texLoads)
    /\ texLoads' = RemoveAt(texLoads, k)
    /\ trace' = [trace EXCEPT !.failed = <<map>>]
    /\ UNCHANGED <<canvasSize, objects, overlay, history, patternMovable, pending,
                   timers, timeout, outerMug, map, disposed, dragging, warned>>

\* the click on exportBtn, lines 756-781: the same bracket around toDataURL;
\* the picture is downloaded
Export ==
    /\ dragging = 0
    /\ overlay' = ShowExcluded
    /\ trace' = [trace EXCEPT !.exported = <<toDataURL(objects, OnCanvas(objects))>>,
                              !.shown = [before |-> Visibility,
                                         after |-> [n \in OverlayNames |->
                                                       ShowExcluded[n].visible]]]
    /\ UNCHANGED <<canvasSize, objects, history, patternMovable, pending, timers,
                   timeout, outerMug, texLoads, map, disposed, dragging, warned>>

\* loadMug() resolves, lines 386-421: the meshes of the model are registered
MugLoaded ==
    /\ ~outerMug
    /\ outerMug' = TRUE
    /\ UNCHANGED <<canvasSize, objects, overlay, history, patternMovable, pending,
                   timers, timeout, texLoads, map, disposed, dragging, warned, trace>>

---------------------------------------------------------------------------
(* Inputs and bounds of the model *)

\* most design objects on the canvas
MaxObjects == 2
\* most commands that commit between two resets
MaxCommits == 3
\* undo runs while the history is no longer than this
MaxHistory == 3
\* most image loads in flight
MaxPending == 1

TextContents == {"Hello"}

TextSizes == {[w |-> Px(200), h |-> Px(40)], [w |-> Px(600), h |-> Px(50)]}

Uploads == {[src |-> "photo.png", w |-> Px(400), h |-> Px(200)]}

Patterns == {[src |-> "dots.png", w |-> Px(1000), h |-> Px(1000)],
             [src |-> "stripes.png", w |-> Px(2000), h |-> Px(500)]}

\* where a drag leaves the center of an object: next to the center of the
\* canvas on both axes
DragPoints == {[x |-> Px(303), y |-> Px(110)]}

DragScales == {Frac(3, 1)}

InitialTrace ==
    [cmd |-> "init", undid |-> "init", before |-> << >>, lenBefore |-> 0,
     added |-> "", commits |-> 0, arg |-> << >>, reps |-> 0, muts |-> << >>,
     sinceCall |-> DEBOUNCE_TIME, gap |-> DEBOUNCE_TIME, fired |-> 0,
     firedId |-> 0, firedAt |-> 0, bound |-> {}, exported |-> << >>,
     failed |-> << >>, selected |-> "", racing |-> FALSE,
     shown |-> [before |-> [n \in OverlayNames |-> n \in {"safeRect", "bleedRect"}],
                after |-> [n \in OverlayNames |-> n \in {"safeRect", "bleedRect"}]]]

\* the constructor, lines 15-30: setupFabric adds the zones and guides before
\* setupEventListeners registers a handler, so nothing is committed
Init ==
    /\ canvasSize = DefaultSize
    /\ objects = <<OverlayEntry("bleedRect"), OverlayEntry("safeRect"),
                   OverlayEntry("vGuide"), OverlayEntry("hGuide")>>
    /\ overlay = [n \in OverlayNames |->
                    CASE n = "safeRect" -> NewSafeRect(DefaultSize)
                      [] n = "bleedRect" -> NewBleedRect(DefaultSize)
                      [] n = "vGuide" -> NewVGuide(DefaultSize)
                      [] OTHER -> NewHGuide(DefaultSize)]
    /\ history = << >>
    /\ patternMovable = FALSE
    /\ pending = << >>
    /\ timers = {}
    /\ timeout = 0
    /\ outerMug = FALSE
    /\ texLoads = << >>
    /\ map = << >>
    /\ disposed = {}
    /\ dragging = 0
    /\ warned = FALSE
    /\ trace = InitialTrace

HasRoom == Len(DesignObjects(objects)) < MaxObjects

MayCommit == trace.commits < MaxCommits

Next ==
    \/ /\ HasRoom /\ MayCommit
       /\ \E content \in TextContents : AddText(content, [w |-> Px(600), h |-> Px(50)], 0)
    \/ MayCommit /\ \E i \in 1..Len(objects) : Delete(i)
    \/ HasRoom /\ MayCommit /\ \E i \in 1..Len(objects) : Clone(i)
    \/ \E i \in 1..Len(objects), p \in DragPoints : Moving(i, p)
    \/ MayCommit /\ Modified
    \/ Len(pending) < MaxPending /\ \E img \in Uploads : UploadImage(img)
    \/ Len(pending) < MaxPending /\ \E img \in Patterns : SelectPattern(img)
    \/ HasRoom /\ MayCommit /\ \E k \in 1..Len(pending) : ImageLoaded(k)
    \/ HasRoom /\ MayCommit /\ \E k \in 1..Len(pending) : PatternLoaded(k)
    \/ TogglePattern
    \/ Len(history) <= MaxHistory /\ Undo
    \/ Reset

\* The design surface under the commands of the user, while the 3D model has
\* not loaded: a bake returns at line 430, so the timers are left out here
\* and run in SpecDebounce.
Spec == Init /\ [][Next]_vars

---------------------------------------------------------------------------
(* The bake timer under a clock *)

\* a tick of the clock, in milliseconds
TickSteps == {100}

NextDebounce ==
    \/ /\ HasRoom /\ MayCommit
       /\ \E content \in TextContents, size \in TextSizes : AddText(content, size, 0)
    \/ MayCommit /\ \E i \in 1..Len(objects) : Delete(i)
    \/ TogglePattern
    \/ Reset
    \/ \E d \in TickSteps : Tick(d)
    \/ \E t \in timers : TimerFires(t)

SpecDebounce == Init /\ [][NextDebounce]_vars

---------------------------------------------------------------------------
(* A long run of commits: texts added to the empty design and deleted again *)

\* commands that commit run while fewer mutations than this were committed
MaxMutations == 52

NextHistory ==
    \/ /\ DesignObjects(objects) = << >>
       /\ Len(trace.muts) < MaxMutations
       /\ \E content \in TextContents : AddText(content, [w |-> Px(200), h |-> Px(40)], 0)
    \/ Len(trace.muts) < MaxMutations /\ \E i \in 1..Len(objects) : Delete(i)
    \/ Tick(DEBOUNCE_TIME)
    \/ \E t \in timers : TimerFires(t)

SpecHistory == Init /\ [][NextHistory]_vars

---------------------------------------------------------------------------
(* A long run of texts added one after the other, with one undo *)

\* most texts on the canvas
MaxAdds == 51

\* no undo has run since the last reset
NeverUndone == Len(trace.muts) = trace.commits

NextAdds ==
    \/ /\ Len(DesignObjects(objects)) < MaxAdds
       /\ \E content \in TextContents : AddText(content, [w |-> Px(200), h |-> Px(40)], 0)
    \/ NeverUndone /\ Undo

SpecAdds == Init /\ [][NextAdds]_vars

---------------------------------------------------------------------------
(* The bake: the 3D model loads, the timer runs updateMugTexture, and the    *)
(* texture loads or fails to                                                 *)

\* most textures there are at a time: bound, released or loading
MaxTextures == 2

NextBake ==
    \/ MugLoaded
    \/ /\ DesignObjects(objects) = << >> /\ MayCommit
       /\ \E content \in TextContents : AddText(content, [w |-> Px(200), h |-> Px(40)], 0)
    \/ Len(history) <= MaxHistory /\ Undo
    \/ Reset
    \/ Export
    \/ Tick(DEBOUNCE_TIME)
    \/ /\ outerMug => Cardinality(TextureIds) < MaxTextures
       /\ \E t \in timers : TimerFires(t)
    \/ \E k \in 1..Len(texLoads) : TextureLoaded(k)
    \/ \E k \in 1..Len(texLoads) : TextureFailed(k)

SpecBake == Init /\ [][NextBake]_vars

---------------------------------------------------------------------------
(* The commands on a canvas that the viewport resizes *)

\* clientWidth and clientHeight of the canvas wrapper: a wide one (the canvas
\* gets its default size), a narrow one, and a low one
ContainerSizes ==
    {[w |-> Px(1000), h |-> Px(600)], [w |-> Px(339), h |-> Px(600)],
     [w |-> Px(1000), h |-> Px(78)]}

NextResize ==
    \/ \E c \in ContainerSizes : Resize(c.w, c.h)
    \/ /\ HasRoom /\ MayCommit
       /\ \E content \in TextContents : AddText(content, [w |-> Px(200), h |-> Px(40)], 0)
    \/ Len(history) <= MaxHistory /\ Undo
    \/ Reset

SpecResize == Init /\ [][NextResize]_vars

---------------------------------------------------------------------------
(* Patterns: two selections may be loading at a time, and the layer list     *)
(* locks and unlocks                                                         *)

\* most pattern images loading at a time
MaxSelections == 2

NextPatterns ==
    \/ Len(pending) < MaxSelections /\ \E img \in Patterns : SelectPattern(img)
    \/ HasRoom /\ MayCommit /\ \E k \in 1..Len(pending) : PatternLoaded(k)
    \/ TogglePattern
    \/ \E i \in 1..Len(objects) : ToggleLock(i)
    \/ Len(history) <= MaxHistory /\ Undo
    \/ Reset

SpecPatterns == Init /\ [][NextPatterns]_vars

---------------------------------------------------------------------------
(* checkBounds and snapToCenter on one object of any position, scale and     *)
(* rotation, on a canvas of either size                                      *)

\* updateCanvasSize keeps the aspect ratio: 614 x 230 and its half
CanvasSizes == {DefaultSize, [width |-> Px(307), height |-> Px(115)]}

\* offsets of the center of the object from the center of the canvas; at
\* 217.5 px the right side of a 200 px wide object is half a pixel past the
\* right side of the bleed rectangle of the 614 px wide canvas
OffsetsX == {-Px(320), -Px(7), 0, Px(9), Px(10), Px(217) + 5, Px(320)}

OffsetsY == {-Px(135), -Px(7), 0, Px(10), Px(125)}

ObjectScales == {Frac(1, 2), One, Frac(3, 1)}

Angles == {0, 90}

\* strokeWidth of a text: 0, or 1 with the "outline" style (line 706)
TextStrokes == {0, Px(1)}

\* the objects the transforms of the user can leave on the canvas; an image
\* has no stroke
SomeObject(size) ==
    {[Entry(type, "", "x", size.width \div 2 + dx, size.height \div 2 + dy,
            dim.w, dim.h, IF type = "i-text" THEN sw ELSE 0)
        EXCEPT !.scaleX = sx, !.scaleY = sy, !.angle = a] :
        type \in {"i-text", "image"}, dx \in OffsetsX, dy \in OffsetsY,
        dim \in TextSizes, sw \in TextStrokes, sx \in ObjectScales,
        sy \in ObjectScales, a \in Angles}

\* the index of the object under test: the one design object, on top
Probe == Len(objects)

InitGeom ==
    /\ canvasSize \in CanvasSizes
    /\ \E o \in SomeObject(canvasSize) :
          objects = <<OverlayEntry("bleedRect"), OverlayEntry("safeRect"),
                      OverlayEntry("vGuide"), OverlayEntry("hGuide"), o>>
    /\ overlay = [n \in OverlayNames |->
                    CASE n = "safeRect" -> NewSafeRect(canvasSize)
                      [] n = "bleedRect" -> NewBleedRect(canvasSize)
                      [] n = "vGuide" -> NewVGuide(canvasSize)
                      [] OTHER -> NewHGuide(canvasSize)]
    /\ history = << >>
    /\ patternMovable = FALSE
    /\ pending = << >>
    /\ timers = {}
    /\ timeout = 0
    /\ outerMug = FALSE
    /\ texLoads = << >>
    /\ map = << >>
    /\ disposed = {}
    /\ dragging = 0
    /\ warned = FALSE
    /\ trace = InitialTrace

\* this.checkBounds(objects[i]), as the "object:scaling" handler calls it
CheckBoundsCall(i) ==
    LET cb == checkBounds(objects[i], overlay.safeRect, overlay.bleedRect)
    IN /\ trace.reps < 2
       /\ objects' = [objects EXCEPT ![i] = cb.obj]
       /\ warned' = cb.warn
       /\ trace' = [trace EXCEPT !.cmd = "checkBounds", !.arg = <<objects[i]>>,
                                 !.reps = IF trace.cmd = "checkBounds" THEN @ + 1 ELSE 1,
                                 !.before = IF trace.cmd = "checkBounds" THEN @
                                            ELSE <<objects[i]>>]
       /\ UNCHANGED <<canvasSize, overlay, history, patternMovable, pending, timers,
                      timeout, outerMug, texLoads, map, disposed, dragging>>

\* this.snapToCenter(objects[i]) with the default snapPx
SnapCall(i) ==
    LET snap == snapToCenter(objects[i], canvasSize, Px(SnapPx))
    IN /\ trace.cmd = "init"
       /\ objects' = [objects EXCEPT ![i] = snap.obj]
       /\ overlay' = [overlay EXCEPT !.vGuide.visible = snap.vGuide,
                                     !.hGuide.visible = snap.hGuide]
       /\ trace' = [trace EXCEPT !.cmd = "snapToCenter", !.arg = <<objects[i]>>]
       /\ UNCHANGED <<canvasSize, history, patternMovable, pending, timers, timeout,
                      outerMug, texLoads, map, disposed, dragging, warned>>

NextGeom ==
    \/ CheckBoundsCall(Probe)
    \/ SnapCall(Probe)
    \/ trace.cmd = "init" /\ \E s \in DragScales : Scaling(Probe, s)
    \/ trace.cmd = "init" /\ Rotating(Probe)

SpecGeom == InitGeom /\ [][NextGeom]_vars

---------------------------------------------------------------------------
(* Properties *)

\* every size the clamp halves is a whole number of tenths: the arithmetic of
\* checkBounds is exact on the states of the model
ExactSizes ==
    \A i \in 1..Len(objects) :
        objects[i].type = "i-text" =>
            /\ (objects[i].width * objects[i].scaleX.n) % (2 * objects[i].scaleX.d) = 0
            /\ (objects[i].height * objects[i].scaleY.n) % (2 * objects[i].scaleY.d) = 0

PatternSources == {p.src : p \in Patterns}

\* an object that is a pattern image: an image of the pattern gallery
IsPatternImage(o) == IsDesign(o) /\ o.type = "image" /\ o.src \in PatternSources

PatternImages(objs) == {i \in 1..Len(objs) : IsPatternImage(objs[i])}

FlaggedPatterns(objs) == {i \in 1..Len(objs) : IsFlaggedPattern(objs[i])}

\* C1: in every reachable state at most one object that is a pattern image is
\* on the surface.
C1_AtMostOnePatternImage == Cardinality(PatternImages(objects)) <= 1

\* the commands that commit a mutation
Committing == {"add-text", "add-image", "select-pattern", "clone", "delete", "modified"}

\* what C2 compares: the objects in z-order with their position and scale
Placement(o) ==
    [type |-> o.type, src |-> o.src, left |-> o.left, top |-> o.top,
     scaleX |-> o.scaleX, scaleY |-> o.scaleY]

Placements(objs) == MapSeq(Placement, DesignObjects(objs))

\* C2: an undo issued right after a command that commits a mutation leaves
\* the design objects (set, z-order, position, scale) as they were just before
\* that command, and the empty design when the snapshot of the command was
\* the only one.
C2_UndoRestoresStateBeforeCommand ==
    (trace.cmd = "undo" /\ trace.undid \in Committing) =>
        /\ Placements(objects) = MapSeq(Placement, trace.before)
        /\ trace.lenBefore = 1 => DesignObjects(objects) = << >>

\* C3: the history never holds more than 50 snapshots, and after N > 50
\* committed mutations with no undo or reset in between it holds exactly 50,
\* the snapshots of the 50 most recent mutations in commit order.
C3_HistoryHoldsLast50Mutations ==
    /\ Len(history) <= HISTORY_LIMIT
    /\ Len(trace.muts) > HISTORY_LIMIT =>
          /\ Len(history) = HISTORY_LIMIT
          /\ \A i \in 1..HISTORY_LIMIT :
                history[i] = trace.muts[Len(trace.muts) - HISTORY_LIMIT + i]

\* C4: at most one bake timer is pending, it is the timer of the last call of
\* debouncedUpdate and runs out 300 ms after that call; since that call at
\* most one bake has run, it ran 300 ms after the call, fired by the timer of
\* that call; and once a call was made either its timer is pending and no
\* bake has run since, or exactly one has.
C4_OneBakePerBurst ==
    /\ Cardinality(timers) <= 1
    /\ \A t \in timers : t.id = timeout /\ t.delay = DEBOUNCE_TIME - trace.sinceCall
    /\ trace.fired <= 1
    /\ trace.fired = 1 =>
          /\ timers = {}
          /\ trace.firedAt = DEBOUNCE_TIME
          /\ trace.firedId = timeout
    /\ timeout # 0 => (timers # {} /\ trace.fired = 0) \/ (timers = {} /\ trace.fired = 1)

\* C4 witness: a call arrived less than 300 ms after the one before it, whose
\* timer it cancelled, and the one bake of the burst has run.
C4_Witness ==
    /\ trace.gap > 0 /\ trace.gap < DEBOUNCE_TIME
    /\ trace.fired = 1
    /\ timers = {}

\* the SafeZone rectangle of the canvas: the safe rectangle without its stroke
SafeZone ==
    Rect(overlay.safeRect.left, overlay.safeRect.top, overlay.safeRect.width,
         overlay.safeRect.height)

\* C5: after checkBounds on a text, the bounding box of the text, scale and
\* rotation applied, lies inside the SafeZone rectangle.
C5_TextInsideSafeZone ==
    (trace.cmd = "checkBounds" /\ objects[Probe].type = "i-text") =>
        InsideRect(objects[Probe], SafeZone)

\* C6: snapToCenter moves the center of the object to the center of the
\* canvas on an axis exactly when it was less than 10 px away on that axis,
\* and leaves that coordinate alone otherwise, whatever the other axis does.
C6_SnapPerAxis ==
    trace.cmd = "snapToCenter" =>
        LET a == trace.arg[1]
            o == objects[Probe]
            nearX == Abs(2 * a.left - canvasSize.width) < 2 * Px(SnapPx)
            nearY == Abs(2 * a.top - canvasSize.height) < 2 * Px(SnapPx)
        IN /\ nearX => 2 * o.left = canvasSize.width
           /\ ~nearX => o.left = a.left
           /\ nearY => 2 * o.top = canvasSize.height
           /\ ~nearY => o.top = a.top

\* what C7 compares: kind, place, scale, rotation and content
Attributes(o) ==
    [type |-> o.type, patternImage |-> o.patternImage, src |-> o.src,
     left |-> o.left, top |-> o.top, scaleX |-> o.scaleX, scaleY |-> o.scaleY,
     angle |-> o.angle]

\* C7: restoring the serialization of the surface yields the same listed
\* design objects: order, kind (pattern image or not), position, scale,
\* rotation and content.
C7_RoundTrip ==
    MapSeq(Attributes, listDesignObjects(MapSeq(fromObject, toJSON(objects))))
        = MapSeq(Attributes, listDesignObjects(objects))

\* C8: at most one object is flagged as the pattern, and when a pattern image
\* has just been added exactly one is, the image that was added.
C8_OneFlaggedPatternTheLatest ==
    /\ Cardinality(FlaggedPatterns(objects)) <= 1
    /\ trace.cmd = "select-pattern" =>
          /\ Cardinality(FlaggedPatterns(objects)) = 1
          /\ \A i \in FlaggedPatterns(objects) : objects[i].src = trace.added

\* C8 witness: a pattern image was added to a surface that held another one.
C8_Witness ==
    /\ trace.cmd = "select-pattern"
    /\ \E j \in 1..Len(trace.before) :
          trace.before[j].patternImage /\ trace.before[j].src # trace.added
    /\ Cardinality(FlaggedPatterns(objects)) = 1

\* C9: a second checkBounds changes neither the position nor the scale of
\* the object the first one returned.
C9_ClampIdempotent ==
    (trace.cmd = "checkBounds" /\ trace.reps = 2) => objects[Probe] = trace.arg[1]

\* C9 witness: checkBounds ran twice on a text that the first run rescaled
\* and moved.
C9_Witness ==
    /\ trace.cmd = "checkBounds" /\ trace.reps = 2
    /\ objects[Probe].type = "i-text"
    /\ trace.before[1].scaleX # objects[Probe].scaleX
    /\ trace.before[1].left # objects[Probe].left

\* C10: an undo on a history of n >= 2 snapshots leaves n - 1 of them and
\* the surface equal to the snapshot now on top; restoring appends nothing.
C10_UndoWalksBack ==
    (trace.cmd = "undo" /\ trace.lenBefore >= 2) =>
        /\ Len(history) = trace.lenBefore - 1
        /\ toJSON(objects) = Last(history)

\* the scenario of C11: one add-text more than the history holds
ScenarioAdds == HISTORY_LIMIT + 1

\* the first undo after the texts of the scenario were added to the empty design
UndoAfterScenario ==
    trace.cmd = "undo" /\ trace.undid = "add-text" /\ trace.commits = ScenarioAdds

FullyReset ==
    /\ history = << >>
    /\ DesignObjects(objects) = << >>
    /\ {"safeRect", "bleedRect"} \subseteq OnCanvas(objects)
    /\ overlay.safeRect = NewSafeRect(canvasSize)
    /\ overlay.bleedRect = NewBleedRect(canvasSize)
    /\ map = << >>

\* C12: a reset, or an undo that removes the last snapshot, leaves the
\* history empty, no design object on the surface, the zones of the canvas on
\* the surface and no texture bound to the outer mesh.
C12_FullResetLeavesBlankDesign ==
    [][(Reset \/ (Undo /\ Len(history) = 1)) => FullyReset']_vars

\* C12 witness: an undo removed the only snapshot while a texture was bound,
\* and the texture was released.
C12_Witness ==
    /\ trace.cmd = "undo" /\ trace.lenBefore = 1
    /\ history = << >> /\ map = << >> /\ disposed # {}

\* C14: at most one texture is bound; the bound texture was never released;
\* every texture that was bound and is bound no longer was released.
C14_OneLiveBinding ==
    /\ Len(map) <= 1
    /\ \A i \in 1..Len(map) : map[i].id \notin {x.id : x \in disposed}
    /\ \A id \in trace.bound :
          \/ id \in {map[i].id : i \in 1..Len(map)}
          \/ id \in {x.id : x \in disposed}

\* C14 witness: a finished bake replaced a bound texture, and a reset cleared
\* the one that replaced it.
C14_Witness ==
    /\ Cardinality(disposed) >= 2
    /\ map = << >>
    /\ trace.cmd = "reset"

\* a picture shows no zone and no guide
NoOverlayIn(pic) == \A i \in 1..Len(pic) : pic[i].type # "overlay"

\* C15: no zone and no guide is in a picture a bake or an export draws, and
\* after the bake or export every zone and guide has the visibility it had
\* before.
C15_BakeRestoresVisibility ==
    /\ \A i \in 1..Len(texLoads) : NoOverlayIn(texLoads[i].pic)
    /\ \A i \in 1..Len(trace.exported) : NoOverlayIn(trace.exported[i])
    /\ trace.shown.after = trace.shown.before

\* a bake that fails: the timer runs without the outer mesh, or the texture
\* source fails to load
FailedBake ==
    \/ ~outerMug /\ \E t \in timers : TimerFires(t)
    \/ \E k \in 1..Len(texLoads) : TextureFailed(k)

\* C20: a bake that fails leaves the bound texture bound, releases nothing
\* and starts neither a timer nor another load.
C20_FailedBakeKeepsBinding ==
    [][FailedBake => /\ map' = map
                     /\ disposed' = disposed
                     /\ timers' \subseteq timers
                     /\ Len(texLoads') <= Len(texLoads)]_vars

\* C20 witness: a texture source failed to load while another texture was
\* bound, which is still bound.
C20_Witness ==
    /\ trace.failed # << >>
    /\ trace.failed[1] # << >>
    /\ map = trace.failed[1]

\* C13: an undo on the empty history leaves the history empty and the
\* surface as it was or fully reset; it is never refused.
C13_UndoOnEmptyHistory ==
    [][(Undo /\ history = << >>) =>
          /\ history' = << >>
          /\ \/ objects' = objects /\ overlay' = overlay /\ map' = map
             \/ FullyReset']_vars

\* C13 witness: an undo ran on the history that the undo before it had
\* emptied.
C13_Witness ==
    /\ trace.cmd = "undo" /\ trace.undid = "undo"
    /\ trace.lenBefore = 0
    /\ history = << >>

\* C16: the safe zone is {60, 3, W - 120, H - 8} and the bleed zone is
\* {-10, -10, W + 20, H + 20} for the canvas size W x H of the state.
C16_ZonesFollowCanvasSize ==
    /\ SafeZone = Rect(Px(60), Px(3), canvasSize.width - Px(120),
                       canvasSize.height - Px(8))
    /\ Rect(overlay.bleedRect.left, overlay.bleedRect.top, overlay.bleedRect.width,
            overlay.bleedRect.height)
         = Rect(-Px(10), -Px(10), canvasSize.width + Px(20), canvasSize.height + Px(20))

\* C16 witness: on a canvas that a resize made smaller, an undo restored a
\* snapshot.
C16_Witness ==
    /\ canvasSize # DefaultSize
    /\ trace.cmd = "undo" /\ trace.lenBefore >= 2
    /\ SafeZone.width = canvasSize.width - Px(120)

\* the box of o, scale applied, contains the rectangle r on all four sides;
\* o.left and o.top are the center of o
CoversRect(o, r) ==
    LET dx == 2 * o.scaleX.d
        dy == 2 * o.scaleY.d
        w == o.width * o.scaleX.n
        h == o.height * o.scaleY.n
    IN /\ dx * o.left - w <= dx * r.left
       /\ dx * o.left + w >= dx * (r.left + r.width)
       /\ dy * o.top - h <= dy * r.top
       /\ dy * o.top + h >= dy * (r.top + r.height)

\* the flagged pattern image of the canvas; there is one right after a
\* pattern was selected
ThePattern == objects[FirstPattern(objects)]

\* C17: right after a pattern was selected, the bounding box of the pattern
\* image, as scaled and as positioned, contains the SafeZone rectangle on all
\* four sides.
C17_PatternCoversSafeZone ==
    trace.cmd = "select-pattern" => CoversRect(ThePattern, SafeZone)

\* C18: the image that an upload or the selection of a pattern has just put
\* on the canvas carries a clip region that is exactly the SafeZone rectangle.
C18_ClipRegionIsSafeZone ==
    /\ trace.cmd = "add-image" => objects[Len(objects)].clipPath = <<SafeZone>>
    /\ trace.cmd = "select-pattern" => ThePattern.clipPath = <<SafeZone>>

\* the places of the safe and bleed zones in the z-order
ZoneIndexes ==
    {i \in 1..Len(objects) :
        IsOverlay(objects[i]) /\ objects[i].ref \in {"safeRect", "bleedRect"}}

DesignIndexes == {i \in 1..Len(objects) : IsDesign(objects[i])}

\* C19: the zones are below every design object; the pattern image is below
\* every text and image object and above both zones; and a text or image
\* just added is topmost.
C19_ZOrder ==
    /\ \A z \in ZoneIndexes : \A d \in DesignIndexes : z < d
    /\ \A p \in PatternImages(objects) :
          /\ \A d \in DesignIndexes \ PatternImages(objects) : p < d
          /\ \A z \in ZoneIndexes : z < p
    /\ trace.cmd \in {"add-text", "add-image"} => IsDesign(objects[Len(objects)])

\* the zones and guides that are objects of the canvas and carry both
\* exclusion flags
WiredOverlays ==
    {objects[i].ref : i \in {j \in 1..Len(objects) :
        /\ IsOverlay(objects[j])
        /\ objects[j].excludeFromExport
        /\ objects[j].excludeFromLayers}}

\* C21: after an undo that restored a snapshot (the history was not empty
\* after the pop), the safe zone, the bleed zone and both guides are objects
\* of the canvas, excluded from export and from the layer listing.
C21_UndoRewiresZonesAndGuides ==
    (trace.cmd = "undo" /\ trace.lenBefore >= 2) => WiredOverlays = OverlayNames

\* a step that commits a mutation
CommitStep == trace'.commits = trace.commits + 1

\* C22: right after every step that commits a mutation both alignment guides
\* are hidden.
C22_GuidesHiddenAfterCommit ==
    [][CommitStep => (~overlay'.vGuide.visible /\ ~overlay'.hGuide.visible)]_vars

\* C23: every pattern image on the canvas is selectable and evented exactly
\* when pattern-movable mode is on, and its scaling and rotation locks are set
\* exactly when the mode is off.
C23_PatternInteractiveIffMovable ==
    \A i \in PatternImages(objects) :
        /\ objects[i].selectable = patternMovable
        /\ objects[i].evented = patternMovable
        /\ objects[i].lockTransform = ~patternMovable

\* C27: when the second of two patterns was selected while the first was
\* still loading and both have loaded, in either order, the canvas holds
\* exactly one pattern image, the one selected last.
C27_LastSelectedPatternWins ==
    (trace.racing /\ ~PatternPending /\ trace.cmd = "select-pattern") =>
        /\ Cardinality(PatternImages(objects)) = 1
        /\ \A i \in PatternImages(objects) : objects[i].src = trace.selected

\* the BleedZone rectangle of the canvas: the bleed rectangle without its stroke
BleedZone ==
    Rect(overlay.bleedRect.left, overlay.bleedRect.top, overlay.bleedRect.width,
         overlay.bleedRect.height)

\* checkBounds left the position and the scale of its argument as they were
Untouched ==
    /\ objects[Probe].left = trace.arg[1].left
    /\ objects[Probe].top = trace.arg[1].top
    /\ objects[Probe].scaleX = trace.arg[1].scaleX
    /\ objects[Probe].scaleY = trace.arg[1].scaleY

\* C24: checkBounds leaves the position and the scale of an object that is
\* not a text as they were, and it raises the warning exactly when the
\* bounding box of its argument escapes the BleedZone on at least one side.
C24_ImagesOnlyWarned ==
    trace.cmd = "checkBounds" =>
        /\ trace.arg[1].type # "i-text" => Untouched
        /\ warned = EscapesRect(trace.arg[1], BleedZone)

\* C25: when a command that commits a mutation has run, the newest snapshot
\* of the history is the serialization of the canvas as the command left it.
C25_NewestSnapshotIsLiveSurface ==
    trace.cmd \in Committing => Last(history) = toJSON(objects)

\* the 3D model has loaded, a bake was scheduled at least once, and no timer
\* and no texture load is pending
BakesSettled ==
    /\ outerMug
    /\ timeout # 0
    /\ timers = {}
    /\ texLoads = << >>

\* the texture of the outer mesh is the picture of the canvas as it is
BoundToLiveSurface ==
    /\ map # << >>
    /\ map[1].pic = toDataURL(objects, OnCanvas(objects))

\* C26: once the 3D model has loaded and every timer and every texture load
\* has completed, none of them by failing, the texture bound to the outer
\* mesh is the raster of the canvas as the last mutation left it.
C26_SettledTextureIsFinalRaster ==
    (BakesSettled /\ trace.failed = << >>) => BoundToLiveSurface

====
